---- MODULE Spec2Model ----
(***************************************************************************)
(* ChatService (src/src/chat/chat_service.py): one browser session, one    *)
(* transcript, driven by asyncio coroutines.  A coroutine runs atomically  *)
(* from one await to the next; every await on an external collaborator     *)
(* (context creation, context close, browser close, agent run) is a        *)
(* suspension point at which other coroutines of the same event loop may   *)
(* run.  Each external call either returns or raises.                      *)
(*                                                                         *)
(* ChatUI (src/src/chat/chat_ui.py) holds the ChatService and the displayed  *)
(* history; main (src/webui.py) serves the handlers until it is shut down.  *)
(*                                                                         *)
(* Strings are modelled as sequences of tokens, so that an f-string is a   *)
(* concatenation.  ChatMessage.timestamp is not modelled.                  *)
(***************************************************************************)
EXTENDS Integers, Sequences, FiniteSets, TLC

\* ---- bounds ----
NumTasks == 2
MaxCalls == 3
MaxMessages == 4

Tasks == 1..NumTasks

\* ---- inputs ----
Texts == {<<>>, <<"go">>}
Notes == {<<"note">>}
Roles == {"user", "assistant"}
None == "None"
NoMeta == [none |-> TRUE]
EpisodeResults ==
    [final_result : {"Paris"}, errors : {<<>>, <<"timeout">>},
     actions : {<<"a1">>}, thoughts : {<<"t1">>}]
ExcBrowser == "browser launch failed"
ExcContext == "context creation failed"
ExcAgentInit == "agent construction failed"
ExcAgentRun == "agent run failed"
ExcCtxClose == "context close failed"
ExcBrowserClose == "browser close failed"

VARIABLES
    browser,          \* self.browser: 0 is None, else a browser handle
    browser_context,  \* self.browser_context: 0 is None, else a context handle
    messages,         \* self.messages
    nbBrowsers,       \* browsers provisioned so far (CustomBrowser() returned)
    nbContexts,       \* contexts provisioned so far (new_context returned)
    calls,            \* calls started so far
    closeCalled,      \* close_browser has been called
    op,               \* per task: the public method it is running
    pc,               \* per task: where the coroutine stands
    arg,              \* per task: the message argument of process_user_message
    outcome,          \* per task: what the try body of process_user_message
                      \* produced, the history of agent.run or the exception e
    ret,              \* per task: the value returned or the exception raised
    old,              \* per task: session state when the call started
    solo,             \* per task: no other call has overlapped this one
    agentCtx,         \* per task: browser_context handed to the running agent
    initRun,          \* consecutive non-overlapping successful initialize_browser calls
    chat_service,     \* ChatUI.chat_service is set
    displayed,        \* value of the chatbot component: (user text, reply text) pairs
    ui,               \* per task: handle_message is running, with its history argument
    serving           \* demo.launch of main is serving requests

vars == <<browser, browser_context, messages, nbBrowsers, nbContexts, calls,
          closeCalled, op, pc, arg, outcome, ret, old, solo, agentCtx, initRun,
          chat_service, displayed, ui, serving>>

uiVars == <<chat_service, displayed, ui, serving>>

NoRet == [kind |-> "none"]
RetNone == [kind |-> "value"]
RetMsg(m) == [kind |-> "msg", msg |-> m]
RetExc(d) == [kind |-> "exc", exc |-> d]
RetStatus(ok) == [kind |-> "status", ok |-> ok]
RetUi(input, history) == [kind |-> "ui", input |-> input, history |-> history]
NoUi == [active |-> FALSE, history |-> <<>>]
InHandler(h) == [active |-> TRUE, history |-> h]
Warning == <<"Please initialize the chat service first!">>
NoOutcome == [kind |-> "none"]
History(h) == [kind |-> "history", history |-> h]
Caught(d) == [kind |-> "exc", e |-> d]
NoOld == [browser |-> 0, browser_context |-> 0, nbBrowsers |-> 0, nbContexts |-> 0,
          nbMessages |-> 0]
NoRun == [n |-> 0, open |-> FALSE, nbBrowsers |-> 0, nbContexts |-> 0]

InFlight(t) == pc[t] \notin {"idle", "done", "raised"}
OthersQuiet(t) == \A u \in Tasks \ {t} : ~InFlight(u)
Quiescent == \A t \in Tasks : ~InFlight(t)

\* every finished call has handed its result to its caller.  A result is
\* handed over (Return) before the next step of the service is taken: Return
\* touches nothing of the service, so no interleaving of its steps is lost.
Collected == \A t \in Tasks : pc[t] \notin {"done", "raised"}

\* ---- ChatMessage and the pure parts of ChatService ----
ChatMessage(role, content, metadata) ==
    [role |-> role, content |-> content, metadata |-> metadata]

AddMessageFront(msgs, m) == <<m>> \o msgs

\* add_message: append at the end
AddMessage(msgs, m) == Append(msgs, m)

\* clear_chat_history
ClearMessages(msgs) == <<>>

\* get_chat_history
GetChatHistory == messages

NeedsInitAlways == TRUE
NeedsInitCtx == browser_context = 0
NeedsInitEmptyHistory == browser = 0 \/ messages = <<>>

\* the guard of initialize_browser: if not self.browser
NeedsInit == browser = 0

InTryRunOnly(site) == site = "agent_run"
InTryInitOnly(site) == site \in {"browser", "new_context"}

\* the try block of process_user_message covers every step of the body
InTry(site) == site \in {"browser", "new_context", "agent_init", "agent_run"}

RECURSIVE ReprItems(_)
ReprItems(s) ==
    IF s = <<>> THEN <<>>
    ELSE IF Len(s) = 1 THEN <<"'", s[1], "'">>
    ELSE <<"'", s[1], "'", ", ">> \o ReprItems(Tail(s))

\* str() of a Python list of strings
ReprList(s) == <<"[">> \o ReprItems(s) \o <<"]">>

ResponseContentAlways(h) ==
    <<"Result: ", h.final_result, "\n">> \o <<"\nErrors: ">> \o ReprList(h.errors)

\* response_content of process_user_message
ResponseContent(h) ==
    <<"Result: ", h.final_result, "\n">>
        \o (IF h.errors # <<>> THEN <<"\nErrors: ">> \o ReprList(h.errors) ELSE <<>>)

SuccessMessage(h) ==
    ChatMessage("assistant", ResponseContent(h),
                [actions |-> h.actions, thoughts |-> h.thoughts, errors |-> h.errors])

ErrorMessageKeys(d) ==
    ChatMessage("assistant", <<"Error processing request: ", d>>,
                [error |-> d, errors |-> <<d>>])

ErrorMessage(d) ==
    ChatMessage("assistant", <<"Error processing request: ", d>>, [error |-> d])

UserMessageBlank(text) == ChatMessage("user", <<>>, NoMeta)

\* the user message of process_user_message: add_message("user", message)
UserMessage(text) == ChatMessage("user", text, NoMeta)

Init ==
    /\ browser = 0
    /\ browser_context = 0
    /\ messages = <<>>
    /\ nbBrowsers = 0
    /\ nbContexts = 0
    /\ calls = 0
    /\ closeCalled = FALSE
    /\ op = [t \in Tasks |-> "none"]
    /\ pc = [t \in Tasks |-> "idle"]
    /\ arg = [t \in Tasks |-> <<>>]
    /\ outcome = [t \in Tasks |-> NoOutcome]
    /\ ret = [t \in Tasks |-> NoRet]
    /\ old = [t \in Tasks |-> NoOld]
    /\ solo = [t \in Tasks |-> FALSE]
    /\ agentCtx = [t \in Tasks |-> 0]
    /\ initRun = NoRun
    /\ chat_service = FALSE
    /\ displayed = <<>>
    /\ ui = [t \in Tasks |-> NoUi]
    /\ serving = TRUE

\* ---- bookkeeping shared by every call ----
Snapshot ==
    [browser |-> browser, browser_context |-> browser_context,
     nbBrowsers |-> nbBrowsers, nbContexts |-> nbContexts,
     nbMessages |-> Len(messages)]

\* messages that the calls in flight may still append
Pending == 2 * Cardinality({u \in Tasks : InFlight(u) /\ op[u] = "process_user_message"})

\* messages that a call of method m may append
Appends(m) ==
    IF m = "process_user_message" THEN 2 ELSE IF m = "add_message" THEN 1 ELSE 0

\* task t starts a call of method m
Begin(t, m) ==
    /\ pc[t] = "idle"
    /\ serving
    /\ Collected
    /\ calls < MaxCalls
    /\ Appends(m) > 0 => Len(messages) + Pending + Appends(m) <= MaxMessages
    /\ calls' = calls + 1
    /\ op' = [op EXCEPT ![t] = m]
    /\ old' = [old EXCEPT ![t] = Snapshot]
    /\ solo' = [u \in Tasks |-> IF u = t THEN OthersQuiet(t) ELSE solo[u] /\ ~InFlight(u)]

\* the call of task t returns value r
Done(t, r) ==
    /\ pc' = [pc EXCEPT ![t] = "done"]
    /\ ret' = [ret EXCEPT ![t] = r]

\* the call of task t raises an exception described by d
Raised(t, d) ==
    /\ pc' = [pc EXCEPT ![t] = "raised"]
    /\ ret' = [ret EXCEPT ![t] = RetExc(d)]

Suspend(t, at) ==
    /\ pc' = [pc EXCEPT ![t] = at]
    /\ ret' = ret

\* bookkeeping of the run of consecutive initialize_browser calls
RunBegin(t, m) ==
    IF m = "initialize_browser" /\ OthersQuiet(t)
          /\ (initRun.n > 0 \/ (browser = 0 /\ browser_context = 0))
    THEN IF initRun.n = 0
         THEN [n |-> 0, open |-> TRUE, nbBrowsers |-> nbBrowsers, nbContexts |-> nbContexts]
         ELSE [initRun EXCEPT !.open = TRUE]
    ELSE NoRun

RunEnd(r) == IF r.open THEN [r EXCEPT !.n = @ + 1, !.open = FALSE] ELSE r

\* ---- initialize_browser ----
\* the call runs up to the await of new_context
CallInitializeBrowser(t) ==
    /\ Begin(t, "initialize_browser")
    /\ UNCHANGED <<messages, arg, outcome, agentCtx, browser_context, nbContexts,
                   closeCalled>>
    /\ UNCHANGED uiVars
    /\ IF ~NeedsInit
       THEN /\ Done(t, RetNone)
            /\ initRun' = RunEnd(RunBegin(t, "initialize_browser"))
            /\ UNCHANGED <<browser, nbBrowsers>>
       ELSE \/ /\ Raised(t, ExcBrowser)
               /\ initRun' = NoRun
               /\ UNCHANGED <<browser, nbBrowsers>>
            \/ /\ browser' = nbBrowsers + 1
               /\ nbBrowsers' = nbBrowsers + 1
               /\ initRun' = RunBegin(t, "initialize_browser")
               /\ Suspend(t, "new_context")

\* new_context returns or raises; the result is stored in self.browser_context
ResumeNewContext(t) ==
    /\ pc[t] = "new_context"
    /\ Collected
    /\ op[t] = "initialize_browser"
    /\ UNCHANGED uiVars
    /\ UNCHANGED <<browser, messages, nbBrowsers, calls, closeCalled, op, arg,
                   outcome, old, solo, agentCtx>>
    /\ \/ /\ Raised(t, ExcContext)
          /\ initRun' = NoRun
          /\ UNCHANGED <<browser_context, nbContexts>>
       \/ /\ browser_context' = nbContexts + 1
          /\ nbContexts' = nbContexts + 1
          /\ initRun' = RunEnd(initRun)
          /\ Done(t, RetNone)

\* ---- close_browser ----
CloseHasBrowserAlways == TRUE

\* the guards of close_browser: if self.browser_context, if self.browser
CloseHasContext == browser_context # 0
CloseHasBrowser == browser # 0

CallCloseBrowser(t) ==
    /\ Begin(t, "close_browser")
    /\ closeCalled' = TRUE
    /\ initRun' = NoRun
    /\ UNCHANGED uiVars
    /\ UNCHANGED <<browser, browser_context, messages, nbBrowsers, nbContexts,
                   arg, outcome, agentCtx>>
    /\ IF CloseHasContext THEN Suspend(t, "context_close")
       ELSE IF CloseHasBrowser THEN Suspend(t, "browser_close")
       ELSE Done(t, RetNone)

\* browser_context.close() returns or raises; then the browser is looked at
ResumeContextClose(t) ==
    /\ pc[t] = "context_close"
    /\ Collected
    /\ UNCHANGED uiVars
    /\ UNCHANGED <<browser, browser_context, messages, nbBrowsers, nbContexts,
                   calls, closeCalled, op, arg, outcome, old, solo, agentCtx, initRun>>
    /\ \/ Raised(t, ExcCtxClose)
       \/ IF CloseHasBrowser THEN Suspend(t, "browser_close") ELSE Done(t, RetNone)

\* browser.close() returns or raises; only then are the handles cleared
ResumeBrowserClose(t) ==
    /\ pc[t] = "browser_close"
    /\ Collected
    /\ UNCHANGED uiVars
    /\ UNCHANGED <<messages, nbBrowsers, nbContexts, calls, closeCalled, op, arg,
                   outcome, old, solo, agentCtx, initRun>>
    /\ \/ /\ Raised(t, ExcBrowserClose)
          /\ UNCHANGED <<browser, browser_context>>
       \/ /\ browser' = 0
          /\ browser_context' = 0
          /\ Done(t, RetNone)

\* ---- add_message, clear_chat_history ----
CallAddMessage(t, role, content) ==
    /\ Begin(t, "add_message")
    /\ initRun' = NoRun
    /\ messages' = AddMessage(messages, ChatMessage(role, content, NoMeta))
    /\ Done(t, RetMsg(ChatMessage(role, content, NoMeta)))
    /\ UNCHANGED <<browser, browser_context, nbBrowsers, nbContexts, arg, outcome,
                   agentCtx, closeCalled>>
    /\ UNCHANGED uiVars

CallClearChatHistory(t) ==
    /\ Begin(t, "clear_chat_history")
    /\ initRun' = NoRun
    /\ messages' = ClearMessages(messages)
    /\ Done(t, RetNone)
    /\ UNCHANGED <<browser, browser_context, nbBrowsers, nbContexts, arg, outcome,
                   agentCtx, closeCalled>>
    /\ UNCHANGED uiVars

\* ---- process_user_message ----
\* an exception raised at a site of the body: the except clause turns it
\* into an assistant message when the site lies inside the try block
Fail(t, site, d, msgs) ==
    /\ outcome' = [outcome EXCEPT ![t] = Caught(d)]
    /\ IF InTry(site)
       THEN /\ messages' = AddMessage(msgs, ErrorMessage(d))
            /\ Done(t, RetMsg(ErrorMessage(d)))
       ELSE /\ messages' = msgs
            /\ Raised(t, d)

\* after initialize_browser returned: add the user message, construct the
\* agent on self.browser_context (ctx), await agent.run
AfterInit(t, text, ctx) ==
    \/ /\ Fail(t, "agent_init", ExcAgentInit, AddMessage(messages, UserMessage(text)))
       /\ agentCtx' = agentCtx
    \/ /\ messages' = AddMessage(messages, UserMessage(text))
       /\ agentCtx' = [agentCtx EXCEPT ![t] = ctx]
       /\ outcome' = outcome
       /\ Suspend(t, "agent_run")

\* the call runs up to its first await
ProcessUserMessage(t, text) ==
    /\ Begin(t, "process_user_message")
    /\ initRun' = NoRun
    /\ arg' = [arg EXCEPT ![t] = text]
    /\ UNCHANGED <<browser_context, nbContexts, closeCalled>>
    /\ IF ~NeedsInit
       THEN /\ AfterInit(t, text, browser_context)
            /\ UNCHANGED <<browser, nbBrowsers>>
       ELSE \/ /\ Fail(t, "browser", ExcBrowser, messages)
               /\ UNCHANGED <<browser, nbBrowsers, agentCtx>>
            \/ /\ browser' = nbBrowsers + 1
               /\ nbBrowsers' = nbBrowsers + 1
               /\ Suspend(t, "new_context")
               /\ UNCHANGED <<messages, agentCtx, outcome>>

\* process_user_message called on the service directly
CallProcessUserMessage(t, text) ==
    /\ ProcessUserMessage(t, text)
    /\ UNCHANGED uiVars

ProcessResumeNewContext(t) ==
    /\ pc[t] = "new_context"
    /\ Collected
    /\ UNCHANGED uiVars
    /\ op[t] = "process_user_message"
    /\ UNCHANGED <<browser, nbBrowsers, calls, closeCalled, op, arg, old, solo, initRun>>
    /\ \/ /\ Fail(t, "new_context", ExcContext, messages)
          /\ UNCHANGED <<browser_context, nbContexts, agentCtx>>
       \/ /\ browser_context' = nbContexts + 1
          /\ nbContexts' = nbContexts + 1
          /\ AfterInit(t, arg[t], nbContexts + 1)

\* agent.run returns a history or raises
ResumeAgentRun(t) ==
    /\ pc[t] = "agent_run"
    /\ Collected
    /\ UNCHANGED uiVars
    /\ agentCtx' = [agentCtx EXCEPT ![t] = 0]
    /\ UNCHANGED <<browser, browser_context, nbBrowsers, nbContexts, calls,
                   closeCalled, op, arg, old, solo, initRun>>
    /\ \/ Fail(t, "agent_run", ExcAgentRun, messages)
       \/ \E h \in EpisodeResults :
             /\ outcome' = [outcome EXCEPT ![t] = History(h)]
             /\ messages' = AddMessage(messages, SuccessMessage(h))
             /\ Done(t, RetMsg(SuccessMessage(h)))

\* the caller takes the result; the task is free for the next call
Return(t) ==
    /\ pc[t] \in {"done", "raised"}
    /\ ~ui[t].active
    /\ UNCHANGED uiVars
    /\ pc' = [pc EXCEPT ![t] = "idle"]
    /\ op' = [op EXCEPT ![t] = "none"]
    /\ arg' = [arg EXCEPT ![t] = <<>>]
    /\ outcome' = [outcome EXCEPT ![t] = NoOutcome]
    /\ ret' = [ret EXCEPT ![t] = NoRet]
    /\ old' = [old EXCEPT ![t] = NoOld]
    /\ solo' = [solo EXCEPT ![t] = FALSE]
    /\ UNCHANGED <<browser, browser_context, messages, nbBrowsers, nbContexts,
                   calls, closeCalled, agentCtx, initRun>>

\* ---- ChatUI ----
HistoryAppendNone(history, pair) == history

\* history.append((message, reply))
HistoryAppend(history, pair) == Append(history, pair)

\* formatted_response of handle_message (the emoji of the labels are left out)
FormattedResponse(m) ==
    m.content
      \o (IF "errors" \in DOMAIN m.metadata /\ m.metadata.errors # <<>>
          THEN <<"\n\nErrors occurred: ">> \o ReprList(m.metadata.errors) ELSE <<>>)
      \o (IF "thoughts" \in DOMAIN m.metadata /\ m.metadata.thoughts # <<>>
          THEN <<"\n\nThoughts: ">> \o ReprList(m.metadata.thoughts) ELSE <<>>)

\* the pair that handle_message appends: the reply of the service, or the
\* text of its except clause when process_user_message raised
ReplyPair(message, r) ==
    IF r.kind = "msg" THEN <<message, FormattedResponse(r.msg)>>
    ELSE <<message, <<"Error processing message: ", r.exc>>>>

\* initialize_chat_service: get_llm_model raises, or a new ChatService replaces
\* the old one.  Taken while no coroutine of the old service is in flight.
InitializeChatService(t) ==
    /\ Begin(t, "initialize_chat_service")
    /\ OthersQuiet(t)
    /\ initRun' = NoRun
    /\ UNCHANGED <<arg, outcome, agentCtx, displayed, ui, serving>>
    /\ \/ /\ Done(t, RetStatus(FALSE))
          /\ UNCHANGED <<browser, browser_context, messages, nbBrowsers, nbContexts,
                         closeCalled, chat_service>>
       \/ /\ chat_service' = TRUE
          /\ messages' = <<>>
          /\ browser' = 0
          /\ browser_context' = 0
          /\ nbBrowsers' = 0
          /\ nbContexts' = 0
          /\ closeCalled' = FALSE
          /\ Done(t, RetStatus(TRUE))

\* handle_message(message, history): without a service the warning is returned
\* as the new input value and the history as it was given; with one,
\* process_user_message is awaited
CallHandleMessage(t, text) ==
    IF ~chat_service
    THEN /\ Begin(t, "handle_message")
         /\ initRun' = NoRun
         /\ Done(t, RetUi(Warning, displayed))
         /\ UNCHANGED <<browser, browser_context, messages, nbBrowsers, nbContexts,
                        closeCalled, arg, outcome, agentCtx>>
         /\ UNCHANGED uiVars
    ELSE /\ ProcessUserMessage(t, text)
         /\ ui' = [ui EXCEPT ![t] = InHandler(displayed)]
         /\ UNCHANGED <<chat_service, displayed, serving>>

\* process_user_message has ended: the pair is appended to the given history,
\* which is returned with an empty input value and becomes the chatbot value
HandleMessageFinish(t) ==
    /\ pc[t] \in {"done", "raised"}
    /\ ui[t].active
    /\ op' = [op EXCEPT ![t] = "handle_message"]
    /\ Done(t, RetUi(<<>>, HistoryAppend(ui[t].history, ReplyPair(arg[t], ret[t]))))
    /\ displayed' = HistoryAppend(ui[t].history, ReplyPair(arg[t], ret[t]))
    /\ ui' = [ui EXCEPT ![t] = NoUi]
    /\ UNCHANGED <<browser, browser_context, messages, nbBrowsers, nbContexts, calls,
                   closeCalled, arg, outcome, old, solo, agentCtx, initRun,
                   chat_service, serving>>

\* the handler of the clear button: lambda: ([], [])
ClearChat(t) ==
    /\ Begin(t, "clear_click")
    /\ initRun' = NoRun
    /\ displayed' = <<>>
    /\ Done(t, RetUi(<<>>, <<>>))
    /\ UNCHANGED <<browser, browser_context, messages, nbBrowsers, nbContexts,
                   closeCalled, arg, outcome, agentCtx, chat_service, ui, serving>>

\* ---- main ----
\* demo.launch ends and main returns; nothing else is run.  Taken between
\* requests.
Shutdown ==
    /\ serving
    /\ \A t \in Tasks : pc[t] = "idle"
    /\ serving' = FALSE
    /\ UNCHANGED <<browser, browser_context, messages, nbBrowsers, nbContexts, calls,
                   closeCalled, op, pc, arg, outcome, ret, old, solo, agentCtx,
                   initRun, chat_service, displayed, ui>>

Next ==
    \/ \E t \in Tasks : CallInitializeBrowser(t)
    \/ \E t \in Tasks : ResumeNewContext(t)
    \/ \E t \in Tasks : CallCloseBrowser(t)
    \/ \E t \in Tasks : ResumeContextClose(t)
    \/ \E t \in Tasks : ResumeBrowserClose(t)
    \/ \E t \in Tasks, role \in Roles, content \in Notes : CallAddMessage(t, role, content)
    \/ \E t \in Tasks : CallClearChatHistory(t)
    \/ \E t \in Tasks, text \in Texts : CallProcessUserMessage(t, text)
    \/ \E t \in Tasks : ProcessResumeNewContext(t)
    \/ \E t \in Tasks : ResumeAgentRun(t)
    \/ \E t \in Tasks : Return(t)
    \/ \E t \in Tasks : InitializeChatService(t)
    \/ \E t \in Tasks, text \in Texts : CallHandleMessage(t, text)
    \/ \E t \in Tasks : HandleMessageFinish(t)
    \/ \E t \in Tasks : ClearChat(t)
    \/ Shutdown

Spec == Init /\ [][Next]_vars

\* ---- the chat tab alone: the service has been initialized, and only the
\* send and clear handlers are used ----
InitUI ==
    /\ browser = 0
    /\ browser_context = 0
    /\ messages = <<>>
    /\ nbBrowsers = 0
    /\ nbContexts = 0
    /\ calls = 0
    /\ closeCalled = FALSE
    /\ op = [t \in Tasks |-> "none"]
    /\ pc = [t \in Tasks |-> "idle"]
    /\ arg = [t \in Tasks |-> <<>>]
    /\ outcome = [t \in Tasks |-> NoOutcome]
    /\ ret = [t \in Tasks |-> NoRet]
    /\ old = [t \in Tasks |-> NoOld]
    /\ solo = [t \in Tasks |-> FALSE]
    /\ agentCtx = [t \in Tasks |-> 0]
    /\ initRun = NoRun
    /\ chat_service = TRUE
    /\ displayed = <<>>
    /\ ui = [t \in Tasks |-> NoUi]
    /\ serving = TRUE

NextUI ==
    \/ \E t \in Tasks, text \in Texts : CallHandleMessage(t, text)
    \/ \E t \in Tasks : ProcessResumeNewContext(t)
    \/ \E t \in Tasks : ResumeAgentRun(t)
    \/ \E t \in Tasks : HandleMessageFinish(t)
    \/ \E t \in Tasks : ClearChat(t)
    \/ \E t \in Tasks : Return(t)

SpecUI == InitUI /\ [][NextUI]_vars

TypeOK ==
    /\ browser \in 0..MaxCalls
    /\ browser_context \in 0..MaxCalls
    /\ Len(messages) <= MaxMessages
    /\ calls \in 0..MaxCalls

\* ---- shorthands for the properties ----
Ends(t) == pc[t] \notin {"done", "raised"} /\ pc'[t] \in {"done", "raised"}
Live(o) == o.browser # 0 /\ o.browser_context # 0
Absent(o) == o.browser = 0 /\ o.browser_context = 0
IsError(m) == m.role = "assistant" /\ "error" \in DOMAIN m.metadata
IsSuccess(m) == m.role = "assistant" /\ "actions" \in DOMAIN m.metadata

\* C1: every process_user_message call ends by returning one assistant
\* message, which is the last entry of the transcript at that moment; it
\* never ends by raising, whatever the text and whatever raised inside.
C1_AlwaysAReply ==
    [][\A t \in Tasks :
          (op'[t] = "process_user_message" /\ Ends(t)) =>
              /\ pc'[t] = "done"
              /\ ret'[t].kind = "msg"
              /\ ret'[t].msg.role = "assistant"
              /\ Len(messages') > Len(messages)
              /\ messages'[Len(messages')] = ret'[t].msg
              /\ SubSeq(messages', 1, Len(messages)) = messages]_vars

C1_Witness ==
    \E t \in Tasks :
        /\ op[t] = "process_user_message" /\ pc[t] = "done"
        /\ IsError(ret[t].msg) /\ ret[t].msg.metadata.error = ExcAgentRun
        /\ Len(messages) = 4
        /\ IsSuccess(messages[2])
        /\ messages[3] = UserMessage(<<>>)
        /\ messages[4] = ret[t].msg

\* C2: no two agent episodes run at the same time against the same browser
\* context.
C2_MutualExclusion ==
    \A t, u \in Tasks :
        (t # u /\ pc[t] = "agent_run" /\ pc[u] = "agent_run" /\ agentCtx[t] # 0)
            => agentCtx[t] # agentCtx[u]

\* C3: whenever every call has returned or raised, the browser handle is
\* set exactly when the browser_context handle is set.
C3_HandlePairing ==
    Quiescent => ((browser # 0) <=> (browser_context # 0))

\* C4: when an initialize_browser call that started with no session raises,
\* both handles are unset at that moment.
C4_RollbackOnFailedInit ==
    [][\A t \in Tasks :
          (op'[t] = "initialize_browser" /\ Ends(t) /\ pc'[t] = "raised"
              /\ Absent(old'[t]))
            => (browser' = 0 /\ browser_context' = 0)]_vars

\* C5: after N >= 1 consecutive successful initialize_browser calls that
\* started with no session, exactly one browser and one context have been
\* created and the handles are the ones the first call created.
C5_IdempotentInit ==
    initRun.n >= 1 =>
        /\ nbBrowsers = initRun.nbBrowsers + 1
        /\ nbContexts = initRun.nbContexts + 1
        /\ browser = initRun.nbBrowsers + 1
        /\ browser_context = initRun.nbContexts + 1

C5_Witness == initRun.n >= 2 /\ ~initRun.open

\* C6: as long as close_browser has not been called, at most one browser
\* and at most one context have been created, however the initialize_browser
\* calls overlap.
C6_SerializedCreation ==
    ~closeCalled => (nbBrowsers <= 1 /\ nbContexts <= 1)

C6_Witness ==
    \E t, u \in Tasks :
        /\ t # u /\ ~closeCalled
        /\ op[t] = "initialize_browser" /\ pc[t] = "new_context" /\ Absent(old[t])
        /\ op[u] = "initialize_browser" /\ pc[u] = "done" /\ ~solo[u]
        /\ old[u].browser # 0 /\ old[u].browser_context = 0
        /\ nbBrowsers = 1 /\ nbContexts = 0

\* C7: when a close_browser call that started on a live session and that no
\* other call overlapped ends, by returning or by raising, both handles are
\* unset.
C7_CloseEndsInNoSession ==
    [][\A t \in Tasks :
          (op'[t] = "close_browser" /\ Ends(t) /\ solo'[t] /\ Live(old'[t]))
            => (browser' = 0 /\ browser_context' = 0)]_vars

\* C8: every step either leaves the transcript alone, or extends it at the
\* end leaving the earlier entries as they were, or is clear_chat_history and
\* empties it (or replaces the service by a new one, whose transcript is
\* empty); an add_message call extends it by exactly the message it returns.
C8_AppendOnly ==
    [][/\ \/ GetChatHistory' = GetChatHistory
          \/ /\ Len(GetChatHistory') > Len(GetChatHistory)
             /\ SubSeq(GetChatHistory', 1, Len(GetChatHistory)) = GetChatHistory
          \/ /\ \E t \in Tasks : op'[t] = "clear_chat_history" /\ Ends(t)
             /\ GetChatHistory' = <<>>
          \/ /\ \E t \in Tasks : op'[t] = "initialize_chat_service" /\ Ends(t)
             /\ GetChatHistory' = <<>>
       /\ \A t \in Tasks :
             (op'[t] = "add_message" /\ Ends(t)) =>
                 /\ ret'[t].kind = "msg"
                 /\ GetChatHistory' = Append(GetChatHistory, ret'[t].msg)]_vars

C8_Witness ==
    \E t \in Tasks :
        /\ op[t] = "add_message" /\ pc[t] = "done"
        /\ Len(GetChatHistory) = 3
        /\ GetChatHistory[1].role = "user" /\ IsSuccess(GetChatHistory[2])
        /\ GetChatHistory[Len(GetChatHistory)] = ret[t].msg

C10_EpisodeFailureKeepsSession ==
    [][\A t \in Tasks :
          (pc[t] = "agent_run" /\ pc'[t] # "agent_run"
              /\ ~(pc'[t] = "done" /\ IsSuccess(ret'[t].msg))) =>
              /\ pc'[t] = "done"
              /\ IsError(ret'[t].msg)
              /\ browser' = browser
              /\ browser_context' = browser_context
              /\ (solo[t] /\ Live(old[t])) =>
                     (browser' = old[t].browser
                        /\ browser_context' = old[t].browser_context)]_vars

C10_Witness ==
    \E t \in Tasks :
        /\ op[t] = "process_user_message" /\ pc[t] = "done" /\ solo[t]
        /\ Live(old[t]) /\ IsError(ret[t].msg)
        /\ ret[t].msg.metadata.error = ExcAgentRun
        /\ browser = old[t].browser /\ browser_context = old[t].browser_context

\* C11: when the episode completes with history h, the returned assistant
\* message has content "Result: " r "\n", followed by "\nErrors: " and the
\* list of errors exactly when the list is not empty, and its metadata is
\* exactly {actions, thoughts, errors} of h.
C11_SuccessReduction ==
    \A t \in Tasks :
        (pc[t] = "done" /\ op[t] = "process_user_message"
            /\ outcome[t].kind = "history") =>
            LET h == outcome[t].history
                m == ret[t].msg
            IN  /\ m.role = "assistant"
                /\ DOMAIN m.metadata = {"actions", "thoughts", "errors"}
                /\ m.metadata.actions = h.actions
                /\ m.metadata.thoughts = h.thoughts
                /\ m.metadata.errors = h.errors
                /\ SubSeq(m.content, 1, 3) = <<"Result: ", h.final_result, "\n">>
                /\ (h.errors = <<>>) <=> (Len(m.content) = 3)
                /\ (h.errors # <<>>) =>
                       /\ m.content[4] = "\nErrors: "
                       /\ SubSeq(m.content, 5, Len(m.content)) = ReprList(h.errors)
                /\ (h.errors = <<"timeout">>) =>
                       m.content = <<"Result: ", h.final_result, "\n", "\nErrors: ",
                                     "[", "'", "timeout", "'", "]">>
                /\ messages # <<>> /\ messages[Len(messages)] = m

C11_Witness ==
    \E t \in Tasks :
        /\ pc[t] = "done" /\ op[t] = "process_user_message"
        /\ outcome[t].kind = "history"
        /\ outcome[t].history.errors = <<"timeout">>
        /\ Len(ret[t].msg.content) = 9

\* C12: when session initialization or the agent episode raises X inside
\* process_user_message, the call returns an assistant message whose content
\* is "Error processing request: " followed by the description of X and
\* whose metadata is exactly {error: description of X}.
C12_FailureReduction ==
    \A t \in Tasks :
        (pc[t] \in {"done", "raised"} /\ op[t] = "process_user_message"
            /\ outcome[t].kind = "exc") =>
            /\ pc[t] = "done"
            /\ ret[t].kind = "msg"
            /\ ret[t].msg.role = "assistant"
            /\ ret[t].msg.content = <<"Error processing request: ", outcome[t].e>>
            /\ DOMAIN ret[t].msg.metadata = {"error"}
            /\ ret[t].msg.metadata.error = outcome[t].e

C12_Witness ==
    \E t \in Tasks :
        /\ pc[t] = "done" /\ op[t] = "process_user_message"
        /\ outcome[t] = Caught(ExcContext)
        /\ ret[t].msg.metadata = [error |-> ExcContext]

\* C14: a close_browser call that starts with both handles unset returns at
\* once, awaits no close, raises nothing and changes neither the handles nor
\* the transcript; a call that is not overlapped and returns normally leaves
\* the handles unset if the browser handle was set and untouched if it was
\* not, so that a second call in a row changes nothing more.
C14_CloseWithoutSession ==
    [][\A t \in Tasks :
          /\ (op'[t] = "close_browser" /\ pc[t] = "idle" /\ pc'[t] # "idle"
                 /\ browser = 0 /\ browser_context = 0) =>
                 /\ pc'[t] = "done"
                 /\ ret'[t] = RetNone
                 /\ browser' = 0 /\ browser_context' = 0
                 /\ messages' = messages
                 /\ nbBrowsers' = nbBrowsers /\ nbContexts' = nbContexts
          /\ (op'[t] = "close_browser" /\ Ends(t) /\ pc'[t] = "done" /\ solo'[t]) =>
                 /\ messages' = messages
                 /\ IF old'[t].browser # 0
                    THEN browser' = 0 /\ browser_context' = 0
                    ELSE /\ browser' = old'[t].browser
                         /\ browser_context' = old'[t].browser_context]_vars

C14_Witness ==
    \E t \in Tasks :
        /\ op[t] = "close_browser" /\ pc[t] = "done" /\ solo[t]
        /\ Absent(old[t]) /\ nbBrowsers = 1 /\ nbContexts = 1
        /\ browser = 0 /\ browser_context = 0 /\ calls = 3

\* C15: whenever a process_user_message call that no other call overlaps
\* starts an agent episode, both handles are set and the agent is given a
\* context.
C15_EpisodeOnLiveSession ==
    [][\A t \in Tasks :
          (pc[t] # "agent_run" /\ pc'[t] = "agent_run" /\ solo'[t]) =>
              /\ browser' # 0
              /\ browser_context' # 0
              /\ agentCtx'[t] # 0]_vars

\* C16: close_browser awaits the context close only as its first step, before
\* the browser close, and a call that started on a live session and was not
\* overlapped never ends without having awaited the browser close.
C16_CloseOrderAndIndependence ==
    [][\A t \in Tasks :
          /\ (pc'[t] = "context_close" /\ pc[t] # "context_close") => pc[t] = "idle"
          /\ pc[t] = "browser_close" => pc'[t] \in {"browser_close", "done", "raised"}
          /\ (op'[t] = "close_browser" /\ Ends(t) /\ solo'[t] /\ Live(old'[t]))
                 => pc[t] = "browser_close"]_vars

\* C19 as stated: every process_user_message call that no other call overlaps
\* appends exactly two messages, the user message with the given text and
\* then the assistant reply, also when session initialization fails.
C19_ReplyFollowsQuestion ==
    [][\A t \in Tasks :
          (op'[t] = "process_user_message" /\ Ends(t) /\ solo'[t]) =>
              /\ Len(messages') = old'[t].nbMessages + 2
              /\ messages'[Len(messages') - 1].role = "user"
              /\ messages'[Len(messages') - 1].content = arg'[t]
              /\ messages'[Len(messages')] = ret'[t].msg
              /\ ret'[t].msg.role = "assistant"]_vars

\* C19 amended: such a call appends the user message with the given text and
\* then the assistant reply when session initialization succeeded, and only
\* the assistant error message when session initialization raised.
C19_ReplyFollowsQuestionIfInit ==
    [][\A t \in Tasks :
          (op'[t] = "process_user_message" /\ Ends(t) /\ solo'[t]) =>
              /\ pc'[t] = "done"
              /\ ret'[t].msg.role = "assistant"
              /\ messages'[Len(messages')] = ret'[t].msg
              /\ IF outcome'[t] \in {Caught(ExcBrowser), Caught(ExcContext)}
                 THEN Len(messages') = old'[t].nbMessages + 1
                 ELSE /\ Len(messages') = old'[t].nbMessages + 2
                      /\ messages'[Len(messages') - 1].role = "user"
                      /\ messages'[Len(messages') - 1].content = arg'[t]]_vars

C19_Witness ==
    \E t \in Tasks :
        /\ op[t] = "process_user_message" /\ pc[t] = "done" /\ solo[t]
        /\ outcome[t] = Caught(ExcContext)
        /\ Len(messages) = 3
        /\ messages[1].role = "user" /\ messages[1].content = <<"go">>
        /\ IsSuccess(messages[2])
        /\ messages[3] = ret[t].msg

\* C20: every initialize_browser call that returns normally leaves both
\* handles set at the moment it returns.
C20_InitPostcondition ==
    [][\A t \in Tasks :
          (op'[t] = "initialize_browser" /\ Ends(t) /\ pc'[t] = "done") =>
              (browser' # 0 /\ browser_context' # 0)]_vars

\* C13: once main has shut down, a session of the chat service that was live
\* has been closed.
C13_GracefulShutdown ==
    (~serving /\ chat_service) => ~(browser # 0 /\ browser_context # 0)

\* C17: whenever the send and clear handlers are all finished, the number of
\* displayed pairs is the number of assistant messages of the transcript, and
\* right after a clear both the displayed history and the transcript are empty.
C17_DisplayMirrorsTranscript ==
    (\A t \in Tasks : pc[t] \in {"idle", "done"} /\ ~ui[t].active) =>
        /\ Len(displayed) =
               Cardinality({i \in 1..Len(messages) : messages[i].role = "assistant"})
        /\ (\E t \in Tasks : op[t] = "clear_click" /\ pc[t] = "done") =>
               (displayed = <<>> /\ messages = <<>>)

\* C18 as stated: every handle_message call, with or without a chat service,
\* returns an empty input value and the given history extended by one pair.
C18_SendAddsOnePair ==
    [][\A t \in Tasks :
          (op'[t] = "handle_message" /\ op[t] # "handle_message") =>
              LET given == IF ui[t].active THEN ui[t].history ELSE displayed
              IN  /\ ret'[t].input = <<>>
                  /\ Len(ret'[t].history) = Len(given) + 1
                  /\ SubSeq(ret'[t].history, 1, Len(given)) = given]_vars

\* C18 amended: a handle_message call made with a chat service returns an
\* empty input value and the given history extended by one pair that starts
\* with the message; a call made without one returns the warning as the input
\* value and the given history unchanged.
C18_SendAddsOnePairIfInitialized ==
    [][\A t \in Tasks :
          (op'[t] = "handle_message" /\ op[t] # "handle_message") =>
              IF ui[t].active
              THEN /\ ret'[t].input = <<>>
                   /\ Len(ret'[t].history) = Len(ui[t].history) + 1
                   /\ SubSeq(ret'[t].history, 1, Len(ui[t].history)) = ui[t].history
                   /\ ret'[t].history[Len(ret'[t].history)][1] = arg[t]
                   /\ displayed' = ret'[t].history
              ELSE /\ ~chat_service
                   /\ ret'[t].input = Warning
                   /\ ret'[t].history = displayed
                   /\ displayed' = displayed]_vars

C18_Witness ==
    \E t \in Tasks :
        /\ op[t] = "handle_message" /\ pc[t] = "done" /\ chat_service
        /\ ret[t].input = <<>>
        /\ Len(ret[t].history) = 2
        /\ ret[t].history[2][2][1] = "Error processing request: "
        /\ displayed = ret[t].history

====
